---- MODULE Spec2Model ----
(***************************************************************************)
(* Payment-to-subscription reconciliation of PrydanJobBackend.             *)
(*                                                                         *)
(* The persisted collections (payments, subscriptions) are the shared      *)
(* state.  Every request handler is a process that runs from one database  *)
(* round trip (an await in the source) to the next; between two round      *)
(* trips it only holds what it loaded (mongoose documents are local        *)
(* copies, and save() writes only the paths whose value was changed on     *)
(* the local copy).                                                        *)
(***************************************************************************)
EXTENDS Integers, Sequences, FiniteSets, TLC

VARIABLES payments, subs, now, hs

vars == <<payments, subs, now, hs>>

(* ---------------------------------------------------------------- bounds *)
MaxPayments == 2
MaxSubs == 2
MaxTicks == 1
NumHandlers == 2
MaxHistory == 3

(* One tick of the model clock, in days: a 30-day subscription bought at   *)
(* day 0 has lapsed at day 40, which lies in the next calendar month.      *)
TickDays == 40

Users == {"u1", "u2"}
PlanIds == {"Basic", "Standard", "Premium"}
Actions == {"purchase", "renew", "upgrade"}
Handlers == 1..NumHandlers

(* --------------------------------------------------------- plan catalog *)
Plan ==
  [Basic    |-> [priority |-> 1, renewLimit |-> 1, duration |-> 30,  amount |-> 19900],
   Standard |-> [priority |-> 2, renewLimit |-> 2, duration |-> 90,  amount |-> 49900],
   Premium  |-> [priority |-> 3, renewLimit |-> 0, duration |-> 365, amount |-> 99900]]

(* ------------------------------------------------------------- helpers *)
PayIds == 1..Len(payments)
SubIds == 1..Len(subs)

\* the calendar month of a date (new Date(y, m, 1) .. new Date(y, m + 1, 1))
MonthOf(t) == t \div 30

\* Subscription.findOne({user, status: 'active', endDate: {$gt: t}}): the
\* matching documents; findOne returns one of them, or null (0).
ActiveSubsOf(u, t) ==
  {i \in SubIds : subs[i].user = u /\ subs[i].status = "active" /\ subs[i].endDate > t}

FindOneActive(u, t) == IF ActiveSubsOf(u, t) = {} THEN {0} ELSE ActiveSubsOf(u, t)

\* Payment.countDocuments({action: 'renew', targetSubscription, status:
\* 'completed', createdAt in the month of t})
CountRenews(sid, t) ==
  Cardinality({p \in PayIds :
      /\ payments[p].action = "renew"
      /\ payments[p].target = sid
      /\ payments[p].status = "completed"
      /\ MonthOf(payments[p].createdAt) = MonthOf(t)})

\* the renewal cap check: renewLimit 0 is unlimited
RenewRefused(count, limit) == limit > 0 /\ count >= limit

\* fault injection: the priority check left out, no upgrade is refused
UpgradeNeverRefused(oldPriority, newPriority) == FALSE

\* the upgrade check: refused when the old priority is not lower
UpgradeRefused(oldPriority, newPriority) == oldPriority >= newPriority

\* fault injection: the result of the signature check ignored
SignatureNeverRejected(sigOk) == FALSE

\* the handlers go on only if the signature check (over order id | payment id
\* in verify, over the raw body in the webhook) returned true
SignatureRejected(sigOk) == ~sigOk

\* fault injection: the order id of the request is never compared
OrderNeverMismatch(orderId, oid) == FALSE

\* payment.razorpayOrderId && payment.razorpayOrderId !== razorpay_order_id
OrderMismatch(orderId, oid) == orderId # 0 /\ orderId # oid

\* fault injection: the replay check left out
IsReplayOmitted(status, subscription) == FALSE

\* the idempotent-replay check of verifyPayment
IsReplay(status, subscription) == status = "completed" /\ subscription # 0

\* fault injection: the extension counted from the current end even if lapsed
RenewedEndFromEnd(end, t, days) == end + days

\* the extension of a renewal: from the later of the current end and now
RenewedEnd(end, t, days) == (IF end > t THEN end ELSE t) + days

\* the predicate of the sweep's updateMany
\* fault injection: the sweep's filter leaves out the end date
SweepMatchesActive(s, t) == s.status = "active"

SweepMatches(s, t) == s.status = "active" /\ s.endDate < t

\* a date field that is not set
NoDate == -1

BillingEntry(t, p) ==
  [date |-> t, amount |-> payments[p].amount, paymentId |-> p, status |-> "success"]

\* fault injection: the end date is not derived from the start date
NewSubEndingEarly(u, planId, p, t, end, history) ==
  [user |-> u, plan |-> planId, status |-> "active", startDate |-> t,
   endDate |-> t - 1, paymentId |-> p, billingHistory |-> history,
   hasCancelledAt |-> FALSE, cancellationReason |-> ""]

NewSub(u, planId, p, t, end, history) ==
  [user |-> u, plan |-> planId, status |-> "active", startDate |-> t,
   endDate |-> end, paymentId |-> p, billingHistory |-> history,
   hasCancelledAt |-> FALSE, cancellationReason |-> ""]

\* a handler slot with no request in flight
Idle ==
  [pc |-> "idle", op |-> "none", pid |-> 0, sid |-> 0, t |-> 0, lstatus |-> "",
   lsub |-> 0, linv |-> FALSE, lsst |-> "", lend |-> 0, arg |-> "",
   gw |-> 0, lgw |-> 0, sig |-> FALSE, oid |-> 0, lcat |-> FALSE, caller |-> ""]

\* a request as it starts: what it is about
Started(op, pid) == [Idle EXCEPT !.op = op, !.pid = pid]

\* the response is sent: the slot is free again
Finish(h) == hs' = [hs EXCEPT ![h] = Idle]

\* the request is answered without going further: the slot holds the answer
\* (what) and the identifiers the request named until the response is sent
Answer(h, what, pid, oid) ==
  hs' = [hs EXCEPT ![h] = [Idle EXCEPT !.pc = "respond", !.arg = what,
                                       !.pid = pid, !.oid = oid]]

\* no record matches the identifier id of the request: verify answers 404
\* 'Payment record not found' (what = "payment_not_found"), the webhook logs
\* the order and answers ok (what = "order_not_found")
NotFound(h, what, id) ==
  Answer(h, what, IF what = "payment_not_found" THEN id ELSE 0,
                  IF what = "order_not_found" THEN id ELSE 0)

\* the response is sent
Respond(h) ==
  /\ hs[h].pc = "respond"
  /\ Finish(h)
  /\ UNCHANGED <<payments, subs, now>>

AllIdle == \A h \in Handlers : hs[h].pc = "idle"

(* ----------------------------------------------------------------- Init *)
Init ==
  /\ payments = <<>>
  /\ subs = <<>>
  /\ now = 0
  /\ hs = [h \in Handlers |-> Idle]

(* The clock advances between any two round trips. *)
Tick ==
  /\ now < MaxTicks * TickDays
  /\ now' = now + TickDays
  /\ UNCHANGED <<payments, subs, hs>>

(* ------------------------------------------------------------ createOrder *)
\* POST create-order {planId, action, subscriptionId} by user u.  gwOk is
\* the outcome of the gateway's orders.create call.  The handler is one step:
\* the payment's id and order id reach the client (and the gateway) only with
\* the response, so no other request can name the payment before it ends.
\* razorpayPaymentId is 0 and completedAt is NoDate until a completion sets them.
\* fault injection: the amount is not taken from the plan
NewPaymentUnpriced(u, planId, action, target) ==
  [user |-> u, plan |-> planId, action |-> action, target |-> target,
   amount |-> 0, orderId |-> 0, status |-> "pending",
   subscription |-> 0, createdAt |-> now, invoices |-> 0,
   razorpayPaymentId |-> 0, completedAt |-> NoDate]

NewPayment(u, planId, action, target) ==
  [user |-> u, plan |-> planId, action |-> action, target |-> target,
   amount |-> Plan[planId].amount, orderId |-> 0, status |-> "pending",
   subscription |-> 0, createdAt |-> now, invoices |-> 0,
   razorpayPaymentId |-> 0, completedAt |-> NoDate]

\* fault injection: a failing gateway leaves the payment as created
GatewayFailureIgnored(fresh) == fresh

\* razorpay.orders.create throws: payment.markFailed('Razorpay order creation
\* failed: ' + the gateway's message) on the payment just created; no order id
\* is assigned, and the request is answered 502
GatewayFailed(fresh) == [fresh EXCEPT !.status = "failed"]

\* fault injection: no order is refused
CreateOrderNeverRejected(u, planId, action, subId, ea) == "none"

\* the checks of createOrder before the Payment is created: the answer, or
\* "none".  A refused request is answered with it (the slot holds the answer
\* and the target named until the response is sent).
\* fault injection: the target's owner is not compared with the caller
CreateOrderRejectionUnowned(u, planId, action, subId, ea) ==
  IF action \in {"renew", "upgrade"}
  THEN IF subId = 0 THEN "subscription_required"
       ELSE IF subId \notin SubIds THEN "target_not_found"
       ELSE IF action = "upgrade" /\ subs[subId].plan = planId THEN "same_plan"
       ELSE "none"
  ELSE IF ea # 0 /\ subs[ea].plan = planId THEN "already_active"
       ELSE "none"

CreateOrderRejection(u, planId, action, subId, ea) ==
  IF action \in {"renew", "upgrade"}
  THEN IF subId = 0 THEN "subscription_required"
       ELSE IF subId \notin SubIds THEN "target_not_found"
       ELSE IF subs[subId].user # u THEN "target_not_owned"
       ELSE IF action = "upgrade" /\ subs[subId].plan = planId THEN "same_plan"
       ELSE "none"
  ELSE IF ea # 0 /\ subs[ea].plan = planId THEN "already_active"
       ELSE "none"

CreateOrder(h, u, planId, action, subId, gwOk, maxPay) ==
  /\ hs[h].pc = "idle"
  /\ Len(payments) < maxPay
  /\ \E ea \in FindOneActive(u, now) :
       LET rej == CreateOrderRejection(u, planId, action, subId, ea)
           pid == Len(payments) + 1
           target == IF action \in {"renew", "upgrade"} THEN subId ELSE 0
           fresh == NewPayment(u, planId, action, target)
       IN IF rej # "none"
          THEN /\ hs' = [hs EXCEPT ![h] = [Idle EXCEPT !.pc = "respond", !.arg = rej,
                                                        !.sid = target]]
               /\ UNCHANGED payments
          ELSE IF gwOk
          THEN /\ payments' = Append(payments, [fresh EXCEPT !.orderId = pid])
               /\ Finish(h)
          ELSE /\ payments' = Append(payments, GatewayFailed(fresh))
               /\ Answer(h, "gateway_failed", pid, 0)
  /\ UNCHANGED <<subs, now>>

(* ----------------------------------------------------- Payment methods *)
\* payment.markFailed(reason) on a local copy whose status is lstatus: save()
\* writes the status only if the assignment changed it on the local copy.  A
\* link assigned on the local copy whose save threw is still a changed path,
\* and this save writes it too (dirtyLink, 0 if there is none).
MarkFailed(pid, lstatus, dirtyLink) ==
  payments' = [payments EXCEPT
     ![pid].status = IF lstatus # "failed" THEN "failed" ELSE @,
     ![pid].subscription = IF dirtyLink # 0 THEN dirtyLink ELSE @]

\* The pre-save hook: a save that changes the status to completed on a local
\* copy without an invoice number generates one (a fresh random string).
\* The field invoices counts the invoice numbers generated for the payment.
IssuesInvoice(lstatus, linv) == lstatus # "completed" /\ ~linv

\* payment.markCompleted({razorpayPaymentId: gw, razorpaySignature,
\* gatewayResponse}) on a local copy whose status is lstatus and whose gateway
\* payment id is lgw: the gateway fields of the request are assigned (the
\* signature and the stored response go with the gateway payment id), and
\* completedAt = new Date() is assigned and written whatever the status was.
MarkCompleted(pid, lstatus, linv, lgw, gw) ==
  payments' = [payments EXCEPT
     ![pid].status = IF lstatus # "completed" THEN "completed" ELSE @,
     ![pid].invoices = IF IssuesInvoice(lstatus, linv) THEN @ + 1 ELSE @,
     ![pid].razorpayPaymentId = IF lgw # gw THEN gw ELSE @,
     ![pid].completedAt = now]

\* payment.subscription = sid; payment.save() on a local copy whose link is lsub
LinkSubscription(pid, lsub, sid) ==
  payments' = [payments EXCEPT
     ![pid].subscription = IF lsub # sid THEN sid ELSE @]

(* ---------------------------------------------------------- verifyPayment *)
\* POST verify {razorpay_order_id = oid, razorpay_payment_id = gw, paymentId =
\* pid, signature}: the lookup, the order-id check, the signature check (sigOk
\* is its result) and the replay check, all on the document as loaded.  A
\* request whose order id differs from the payment's is answered 400 'Order id
\* mismatch'.  caller is req.user, set by the protect middleware; the handler
\* never reads it.
StartVerifyBy(h, caller, pid, oid, gw, sigOk) ==
  /\ hs[h].pc = "idle"
  /\ UNCHANGED <<payments, subs, now>>
  /\ IF pid \notin PayIds
     THEN NotFound(h, "payment_not_found", pid)
     ELSE LET p == payments[pid]
              loaded == [Started("verify", pid) EXCEPT
                           !.lstatus = p.status, !.lsub = p.subscription,
                           !.linv = p.invoices > 0,
                           !.gw = gw, !.lgw = p.razorpayPaymentId,
                           !.sig = sigOk, !.oid = oid, !.caller = caller]
          IN IF OrderMismatch(p.orderId, oid)
             THEN Answer(h, "order_mismatch", pid, oid)
             ELSE IF SignatureRejected(sigOk)
             THEN hs' = [hs EXCEPT ![h] =
                           [loaded EXCEPT !.pc = "v_fail", !.arg = "signature_failed"]]
             ELSE IF IsReplay(p.status, p.subscription)
             THEN hs' = [hs EXCEPT ![h] = [loaded EXCEPT !.pc = "v_replay"]]
             ELSE hs' = [hs EXCEPT ![h] = [loaded EXCEPT !.pc = "v_complete"]]

\* the verify call of the user who placed the order (u1 for an unknown id)
StartVerifyAs(h, pid, oid, gw, sigOk) ==
  StartVerifyBy(h, IF pid \in PayIds THEN payments[pid].user ELSE "u1", pid, oid, gw, sigOk)

\* the verify call of the client that paid order oid in one attempt: the
\* gateway payment id it sends is that of the order's payment
StartVerify(h, pid, oid, sigOk) == StartVerifyAs(h, pid, oid, oid, sigOk)

\* fault injection: a replay that stamps the completion time again
VReplayStamping(h) ==
  /\ hs[h].pc = "v_replay"
  /\ payments' = [payments EXCEPT ![hs[h].pid].completedAt = now + 1]
  /\ Finish(h)
  /\ UNCHANGED <<subs, now>>

\* the replay path: Subscription.findById(payment.subscription), and the
\* response "Payment already processed"
VReplay(h) ==
  /\ hs[h].pc = "v_replay"
  /\ Finish(h)
  /\ UNCHANGED <<payments, subs, now>>

\* await payment.markFailed(reason); return next(ApiError)
VFail(h) ==
  /\ hs[h].pc = "v_fail"
  /\ MarkFailed(hs[h].pid, hs[h].lstatus,
                IF hs[h].arg = "link_failed" /\ hs[h].lsub # hs[h].sid THEN hs[h].sid ELSE 0)
  /\ Finish(h)
  /\ UNCHANGED <<subs, now>>

\* await payment.markCompleted(...): fault is a failing save
VMarkCompleted(h, fault) ==
  /\ hs[h].pc = "v_complete"
  /\ IF fault
     THEN /\ Finish(h)
          /\ UNCHANGED payments
     ELSE /\ MarkCompleted(hs[h].pid, hs[h].lstatus, hs[h].linv, hs[h].lgw, hs[h].gw)
          /\ hs' = [hs EXCEPT ![h].pc = "v_context", ![h].lstatus = "completed",
                                ![h].linv = TRUE]
  /\ UNCHANGED <<subs, now>>

\* Plan.findById(payment.plan) (planGone: it returns null), now = new Date(),
\* Subscription.findOne(existing active), and the dispatch on payment.action
VContext(h, planGone) ==
  /\ hs[h].pc = "v_context"
  /\ UNCHANGED <<payments, subs, now>>
  /\ LET p == payments[hs[h].pid]
     IN IF planGone
        THEN hs' = [hs EXCEPT ![h].pc = "v_fail", ![h].arg = "plan_not_found"]
        ELSE \E ea \in FindOneActive(p.user, now) :
          hs' = [hs EXCEPT ![h].t = now,
                   ![h].pc = CASE p.action = "renew" -> "v_renew_load"
                               [] p.action = "upgrade" -> "v_upgrade_load"
                               [] OTHER -> IF ea # 0 /\ subs[ea].plan = p.plan
                                           THEN "v_fail" ELSE "v_create",
                   ![h].arg = IF p.action = "purchase" /\ ea # 0 /\ subs[ea].plan = p.plan
                              THEN "already_active" ELSE ""]

\* renew: Subscription.findById(payment.targetSubscription || payment.subscription)
VRenewLoad(h) ==
  /\ hs[h].pc = "v_renew_load"
  /\ UNCHANGED <<payments, subs, now>>
  /\ LET p == payments[hs[h].pid]
         subId == IF p.target # 0 THEN p.target ELSE hs[h].lsub
     IN IF subId \notin SubIds
        THEN hs' = [hs EXCEPT ![h].pc = "v_fail", ![h].arg = "renew_target_missing"]
        ELSE hs' = [hs EXCEPT ![h].pc = "v_renew_count", ![h].sid = subId,
                      ![h].lsst = subs[subId].status, ![h].lend = subs[subId].endDate]

\* fault injection: a refused renewal still extends the subscription
VRenewCountExtending(h) ==
  /\ hs[h].pc = "v_renew_count"
  /\ UNCHANGED <<payments, now>>
  /\ LET limit == Plan[subs[hs[h].sid].plan].renewLimit
     IN IF RenewRefused(CountRenews(hs[h].sid, hs[h].t), limit)
        THEN /\ hs' = [hs EXCEPT ![h].pc = "v_fail", ![h].arg = "renew_limit"]
             /\ subs' = [subs EXCEPT ![hs[h].sid].endDate = @ + 1]
        ELSE /\ hs' = [hs EXCEPT ![h].pc = "v_renew_save"]
             /\ UNCHANGED subs

\* renew: the cap of the subscription's own plan against the count of
\* completed renew payments created this month
VRenewCount(h) ==
  /\ hs[h].pc = "v_renew_count"
  /\ UNCHANGED <<payments, subs, now>>
  /\ LET limit == Plan[subs[hs[h].sid].plan].renewLimit
     IN IF RenewRefused(CountRenews(hs[h].sid, hs[h].t), limit)
        THEN hs' = [hs EXCEPT ![h].pc = "v_fail", ![h].arg = "renew_limit"]
        ELSE hs' = [hs EXCEPT ![h].pc = "v_renew_save"]

\* renew: sub.endDate, billingHistory.push, sub.status = 'active'; sub.save()
\* writes endDate, pushes the entry, and writes status only if the loaded
\* status was not already active.  fault: the save throws (500, no markFailed)
VRenewSave(h, fault) ==
  /\ hs[h].pc = "v_renew_save"
  /\ LET pid == hs[h].pid
         sid == hs[h].sid
         newEnd == RenewedEnd(hs[h].lend, hs[h].t, Plan[payments[pid].plan].duration)
     IN IF fault
        THEN /\ Finish(h)
             /\ UNCHANGED subs
        ELSE /\ Len(subs[sid].billingHistory) < MaxHistory
             /\ subs' = [subs EXCEPT
                  ![sid].endDate = newEnd,
                  ![sid].billingHistory = Append(@, BillingEntry(hs[h].t, pid)),
                  ![sid].status = IF hs[h].lsst # "active" THEN "active" ELSE @]
             /\ hs' = [hs EXCEPT ![h].pc = "v_link"]
  /\ UNCHANGED <<payments, now>>

\* fault injection: a refused upgrade still expires the old subscription
VUpgradeLoadExpiring(h) ==
  /\ hs[h].pc = "v_upgrade_load"
  /\ UNCHANGED <<payments, now>>
  /\ LET p == payments[hs[h].pid]
     IN IF p.target = 0
        THEN /\ hs' = [hs EXCEPT ![h].pc = "v_fail", ![h].arg = "upgrade_target_missing"]
             /\ UNCHANGED subs
        ELSE IF UpgradeRefused(Plan[subs[p.target].plan].priority, Plan[p.plan].priority)
        THEN /\ hs' = [hs EXCEPT ![h].pc = "v_fail", ![h].arg = "downgrade_refused"]
             /\ subs' = [subs EXCEPT ![p.target].status = "expired"]
        ELSE /\ hs' = [hs EXCEPT ![h].pc = "v_upgrade_expire", ![h].sid = p.target,
                         ![h].lsst = subs[p.target].status]
             /\ UNCHANGED subs

\* upgrade: the target, its plan, and the priority check
VUpgradeLoad(h) ==
  /\ hs[h].pc = "v_upgrade_load"
  /\ UNCHANGED <<payments, subs, now>>
  /\ LET p == payments[hs[h].pid]
     IN IF p.target = 0
        THEN hs' = [hs EXCEPT ![h].pc = "v_fail", ![h].arg = "upgrade_target_missing"]
        ELSE IF UpgradeRefused(Plan[subs[p.target].plan].priority, Plan[p.plan].priority)
        THEN hs' = [hs EXCEPT ![h].pc = "v_fail", ![h].arg = "downgrade_refused"]
        ELSE hs' = [hs EXCEPT ![h].pc = "v_upgrade_expire", ![h].sid = p.target,
                      ![h].lsst = subs[p.target].status]

\* upgrade: oldSub.status = 'expired'; oldSub.save()
VUpgradeExpire(h, fault) ==
  /\ hs[h].pc = "v_upgrade_expire"
  /\ IF fault
     THEN /\ Finish(h)
          /\ UNCHANGED subs
     ELSE /\ subs' = [subs EXCEPT
                ![hs[h].sid].status = IF hs[h].lsst # "expired" THEN "expired" ELSE @]
          /\ hs' = [hs EXCEPT ![h].pc = "v_create"]
  /\ UNCHANGED <<payments, now>>

\* purchase and upgrade: Subscription.create({... startDate: now, endDate,
\* billingHistory: [entry]}).  A failing create is caught in the purchase
\* branch (markFailed) and propagates in the upgrade branch.
VCreate(h, fault) ==
  /\ hs[h].pc = "v_create"
  /\ LET pid == hs[h].pid
         p == payments[pid]
     IN IF fault
        THEN /\ IF p.action = "purchase"
                THEN hs' = [hs EXCEPT ![h].pc = "v_fail", ![h].arg = "create_failed"]
                ELSE Finish(h)
             /\ UNCHANGED subs
        ELSE /\ Len(subs) < MaxSubs
             /\ subs' = Append(subs,
                   NewSub(p.user, p.plan, pid, hs[h].t,
                          hs[h].t + Plan[p.plan].duration,
                          <<BillingEntry(hs[h].t, pid)>>))
             /\ hs' = [hs EXCEPT ![h].pc = "v_link", ![h].sid = Len(subs) + 1]
  /\ UNCHANGED <<payments, now>>

\* payment.subscription = sub._id; payment.save().  A failing save is caught
\* in the purchase branch (markFailed) and propagates in the other branches.
VLink(h, fault) ==
  /\ hs[h].pc = "v_link"
  /\ LET pid == hs[h].pid
         act == payments[pid].action
     IN IF fault
        THEN /\ IF act = "purchase"
                THEN hs' = [hs EXCEPT ![h].pc = "v_fail", ![h].arg = "link_failed"]
                ELSE Finish(h)
             /\ UNCHANGED payments
        ELSE /\ LinkSubscription(pid, hs[h].lsub, hs[h].sid)
             /\ Finish(h)
  /\ UNCHANGED <<subs, now>>

(* -------------------------------------------------------- razorpayWebhook *)
\* POST webhook: event payment.captured / payment.authorized / payment.failed
\* whose entity has order_id = oid and status = status.  sigOk is the result
\* of the webhook signature check over the raw body.
\* fault injection: the lookup takes any payment when none has the order id
FindAnyPayment(oid) == PayIds

FindByOrderId(oid) == {p \in PayIds : payments[p].orderId = oid}

\* the status the handler sets on its local copy
WebhookStatus(lstatus, status) ==
  IF status \in {"captured", "authorized"}
  THEN IF lstatus # "completed" THEN "completed" ELSE lstatus
  ELSE IF status = "failed" THEN "failed" ELSE lstatus

StartWebhookAs(h, oid, gw, status, sigOk) ==
  /\ hs[h].pc = "idle"
  /\ UNCHANGED <<payments, subs, now>>
  /\ IF SignatureRejected(sigOk)
     THEN Finish(h)
     ELSE IF FindByOrderId(oid) = {}
     THEN NotFound(h, "order_not_found", oid)
     ELSE \E p \in FindByOrderId(oid) :
            hs' = [hs EXCEPT ![h] = [Started("webhook", p) EXCEPT
                     !.pc = "w_save",
                     !.arg = WebhookStatus(payments[p].status, status),
                     !.lstatus = payments[p].status,
                     !.linv = payments[p].invoices > 0,
                     !.gw = gw, !.lgw = payments[p].razorpayPaymentId,
                     !.sig = sigOk, !.oid = oid]]

\* the webhook for the one payment attempt of order oid
StartWebhook(h, oid, status, sigOk) == StartWebhookAs(h, oid, oid, status, sigOk)

\* fault injection: the webhook's save also creates and links a subscription
WSaveActivating(h, fault) ==
  /\ hs[h].pc = "w_save"
  /\ Len(subs) < MaxSubs
  /\ LET pid == hs[h].pid
         p == payments[pid]
     IN /\ subs' = Append(subs, NewSub(p.user, p.plan, pid, now,
                                       now + Plan[p.plan].duration,
                                       <<BillingEntry(now, pid)>>))
        /\ payments' = [payments EXCEPT ![pid].status = hs[h].arg,
                                        ![pid].subscription = Len(subs) + 1]
  /\ Finish(h)
  /\ UNCHANGED now

\* await p.save(): the paths changed on the local copy are written.  A copy
\* that was not completed and is set to completed also carries the entity's
\* payment id and completedAt = new Date().  fault is a save that throws: the
\* handler's catch answers 500 'error processing webhook'.
WSave(h, fault) ==
  /\ hs[h].pc = "w_save"
  /\ IF fault
     THEN /\ Answer(h, "webhook_error", 0, 0)
          /\ UNCHANGED payments
     ELSE /\ LET pid == hs[h].pid
                 new == hs[h].arg
                 completes == new = "completed" /\ hs[h].lstatus # "completed"
             IN payments' = [payments EXCEPT
                  ![pid].status = IF new # hs[h].lstatus THEN new ELSE @,
                  ![pid].invoices = IF new = "completed" /\ IssuesInvoice(hs[h].lstatus, hs[h].linv)
                                    THEN @ + 1 ELSE @,
                  ![pid].razorpayPaymentId = IF completes /\ hs[h].lgw # hs[h].gw
                                             THEN hs[h].gw ELSE @,
                  ![pid].completedAt = IF completes THEN now ELSE @]
          /\ Finish(h)
  /\ UNCHANGED <<subs, now>>

(* ----------------------------------------------------------------- activate *)
\* POST activate {paymentId = pid, planId} by user caller
StartActivate(h, caller, pid, planId) ==
  /\ hs[h].pc = "idle"
  /\ UNCHANGED <<payments, subs, now>>
  /\ IF pid \notin PayIds
     THEN Finish(h)
     ELSE LET p == payments[pid]
          IN IF p.status # "completed"
             THEN Finish(h)
             ELSE IF p.user # caller
             THEN Finish(h)
             ELSE IF p.subscription # 0
             THEN hs' = [hs EXCEPT ![h] = [Started("activate", pid) EXCEPT
                           !.pc = "a_existing", !.lsub = p.subscription]]
             ELSE hs' = [hs EXCEPT ![h] = [Started("activate", pid) EXCEPT
                           !.pc = "a_create", !.arg = planId,
                           !.lstatus = p.status, !.lsub = p.subscription]]

\* the payment already has a subscription: findById, and return it
AExisting(h) ==
  /\ hs[h].pc = "a_existing"
  /\ Finish(h)
  /\ UNCHANGED <<payments, subs, now>>

\* Subscription.create({user, plan: planId, paymentId, status: 'active',
\* startDate: new Date()}); the pre-validate hook derives endDate
ACreate(h) ==
  /\ hs[h].pc = "a_create"
  /\ Len(subs) < MaxSubs
  /\ LET pid == hs[h].pid
     IN subs' = Append(subs,
          NewSub(payments[pid].user, hs[h].arg, pid, now,
                 now + Plan[hs[h].arg].duration, <<>>))
  /\ hs' = [hs EXCEPT ![h].pc = "a_link", ![h].sid = Len(subs) + 1]
  /\ UNCHANGED <<payments, now>>

ALink(h) ==
  /\ hs[h].pc = "a_link"
  /\ LinkSubscription(hs[h].pid, hs[h].lsub, hs[h].sid)
  /\ Finish(h)
  /\ UNCHANGED <<subs, now>>

\* this.isModified('status') && this.status === 'cancelled' && !this.cancelledAt
StampsCancelledAt(lsst, lcat) == lsst # "cancelled" /\ ~lcat

(* ------------------------------------------------------- cancelSubscription *)
StartCancel(h, caller, isAdmin, sid) ==
  /\ hs[h].pc = "idle"
  /\ UNCHANGED <<payments, subs, now>>
  /\ IF sid \notin SubIds
     THEN Finish(h)
     ELSE IF subs[sid].user # caller /\ ~isAdmin
     THEN Finish(h)
     ELSE IF subs[sid].status = "cancelled"
     THEN Finish(h)
     ELSE hs' = [hs EXCEPT ![h] = [Started("cancel", 0) EXCEPT
                   !.pc = "c_save", !.sid = sid, !.lsst = subs[sid].status,
                   !.lcat = subs[sid].hasCancelledAt]]

\* sub.status = 'cancelled'; await sub.save().  The pre-validate hook stamps
\* cancelledAt = new Date() when the status was changed to cancelled on a copy
\* that has no cancelledAt yet (hasCancelledAt: the field is set; lcat: it was
\* set on the copy as loaded); the handler assigns no cancellationReason.
CSave(h) ==
  /\ hs[h].pc = "c_save"
  /\ subs' = [subs EXCEPT
        ![hs[h].sid].status = IF hs[h].lsst # "cancelled" THEN "cancelled" ELSE @,
        ![hs[h].sid].hasCancelledAt =
            IF StampsCancelledAt(hs[h].lsst, hs[h].lcat) THEN TRUE ELSE @]
  /\ Finish(h)
  /\ UNCHANGED <<payments, now>>

(* ---------------------------------------------------- expireOldSubscriptions *)
\* updateMany({status: 'active', endDate: {$lt: now}}, {$set: {status: 'expired'}})
Sweep ==
  /\ subs' = [i \in SubIds |->
                IF SweepMatches(subs[i], now)
                THEN [subs[i] EXCEPT !.status = "expired"] ELSE subs[i]]
  /\ UNCHANGED <<payments, now, hs>>

(* ------------------------------------------------------------ specifications *)
\* the steps of a request in flight
Step(h, faults) ==
  \/ VReplay(h)
  \/ VFail(h)
  \/ Respond(h)
  \/ \E f \in faults : VMarkCompleted(h, f)
  \/ \E g \in faults : VContext(h, g)
  \/ VRenewLoad(h)
  \/ VRenewCount(h)
  \/ \E f \in faults : VRenewSave(h, f)
  \/ VUpgradeLoad(h)
  \/ \E f \in faults : VUpgradeExpire(h, f)
  \/ \E f \in faults : VCreate(h, f)
  \/ \E f \in faults : VLink(h, f)
  \/ \E f \in faults : WSave(h, f)
  \/ AExisting(h)
  \/ ACreate(h)
  \/ ALink(h)
  \/ CSave(h)

\* the requests one user can send
Request(h, U, P) ==
  \/ \E u \in U, planId \in P, action \in Actions, subId \in 0..MaxSubs,
        gwOk \in BOOLEAN : CreateOrder(h, u, planId, action, subId, gwOk, MaxPayments)
  \/ \E pid \in 1..MaxPayments, oid \in 1..MaxPayments, sigOk \in BOOLEAN :
        StartVerify(h, pid, oid, sigOk)
  \/ \E oid \in 1..MaxPayments, status \in {"captured", "authorized", "failed"},
        sigOk \in BOOLEAN : StartWebhook(h, oid, status, sigOk)
  \/ \E u \in U, pid \in 1..MaxPayments, planId \in P :
        StartActivate(h, u, pid, planId)
  \/ \E u \in U, isAdmin \in BOOLEAN, sid \in 1..MaxSubs :
        StartCancel(h, u, isAdmin, sid)

\* Requests served one after another: a request starts when none is in flight.
Next ==
  \/ AllIdle /\ Tick
  \/ AllIdle /\ Sweep
  \/ Request(1, {"u1"}, {"Basic", "Standard"})
  \/ Step(1, {FALSE})

Spec == Init /\ [][Next]_vars

(* ------------------------------------------------- reconciliation events only *)
\* The events that reconcile a payment: verify with a verified signature and
\* the webhook's completion events (captured, authorized), served one after
\* another, with orders, cancellations, the sweep and the clock around them.
NextReconcile ==
  \/ AllIdle /\ Tick
  \/ AllIdle /\ Sweep
  \/ \E planId \in {"Basic", "Standard"}, action \in Actions, subId \in 0..MaxSubs,
        gwOk \in BOOLEAN : CreateOrder(1, "u1", planId, action, subId, gwOk, MaxPayments)
  \/ \E pid \in 1..MaxPayments, oid \in 1..MaxPayments : StartVerify(1, pid, oid, TRUE)
  \/ \E oid \in 1..MaxPayments, status \in {"captured", "authorized"} :
        StartWebhook(1, oid, status, TRUE)
  \/ \E sid \in 1..MaxSubs : StartCancel(1, "u1", FALSE, sid)
  \/ VReplay(1)
  \/ VFail(1)
  \/ Respond(1)
  \/ VMarkCompleted(1, FALSE)
  \/ VContext(1, FALSE)
  \/ VRenewLoad(1)
  \/ VRenewCount(1)
  \/ VRenewSave(1, FALSE)
  \/ VUpgradeLoad(1)
  \/ VUpgradeExpire(1, FALSE)
  \/ VCreate(1, FALSE)
  \/ VLink(1, FALSE)
  \/ WSave(1, FALSE)
  \/ CSave(1)

SpecReconcile == Init /\ [][NextReconcile]_vars

(* ------------------------------------------------ verify racing the webhook *)
\* Handler 1 serves orders and verify calls (verified signature), handler 2
\* the gateway's completion webhooks; their round trips interleave freely.
NextVerifyWebhook ==
  \/ \E planId \in {"Basic", "Standard"}, action \in Actions, subId \in 0..MaxSubs :
        CreateOrder(1, "u1", planId, action, subId, TRUE, MaxPayments)
  \/ \E pid \in 1..MaxPayments : StartVerify(1, pid, pid, TRUE)
  \/ \E oid \in 1..MaxPayments, status \in {"captured", "authorized"} :
        StartWebhook(2, oid, status, TRUE)
  \/ VReplay(1)
  \/ VFail(1)
  \/ \E h \in Handlers : Respond(h)
  \/ VMarkCompleted(1, FALSE)
  \/ VContext(1, FALSE)
  \/ VRenewLoad(1)
  \/ VRenewCount(1)
  \/ VRenewSave(1, FALSE)
  \/ VUpgradeLoad(1)
  \/ VUpgradeExpire(1, FALSE)
  \/ VCreate(1, FALSE)
  \/ VLink(1, FALSE)
  \/ WSave(2, FALSE)

SpecVerifyWebhook == Init /\ [][NextVerifyWebhook]_vars

(* ------------------------------------- concurrent verify and activate calls *)
\* Two handler slots serve verify calls (verified signature) and activate
\* calls of the same user at once; their round trips interleave freely.
NextConcurrentApply ==
  \/ \E planId \in {"Basic", "Standard"}, action \in Actions, subId \in 0..MaxSubs :
        CreateOrder(1, "u1", planId, action, subId, TRUE, MaxPayments)
  \/ \E h \in Handlers, pid \in 1..MaxPayments : StartVerify(h, pid, pid, TRUE)
  \/ \E h \in Handlers, pid \in 1..MaxPayments :
        StartActivate(h, "u1", pid, payments[pid].plan)
  \/ \E h \in Handlers : VReplay(h)
  \/ \E h \in Handlers : VFail(h)
  \/ \E h \in Handlers : Respond(h)
  \/ \E h \in Handlers : VMarkCompleted(h, FALSE)
  \/ \E h \in Handlers : VContext(h, FALSE)
  \/ \E h \in Handlers : VRenewLoad(h)
  \/ \E h \in Handlers : VRenewCount(h)
  \/ \E h \in Handlers : VRenewSave(h, FALSE)
  \/ \E h \in Handlers : VUpgradeLoad(h)
  \/ \E h \in Handlers : VUpgradeExpire(h, FALSE)
  \/ \E h \in Handlers : VCreate(h, FALSE)
  \/ \E h \in Handlers : VLink(h, FALSE)
  \/ \E h \in Handlers : AExisting(h)
  \/ \E h \in Handlers : ACreate(h)
  \/ \E h \in Handlers : ALink(h)

SpecConcurrentApply == Init /\ [][NextConcurrentApply]_vars

(* ------------------------- concurrent verify calls, any signature result *)
\* Two handler slots serve verify calls of the same user at once, with
\* signatures that pass and signatures that fail the check.
NextConcurrentVerify ==
  \/ \E planId \in {"Basic", "Standard"}, action \in Actions, subId \in 0..MaxSubs :
        CreateOrder(1, "u1", planId, action, subId, TRUE, MaxPayments)
  \/ \E h \in Handlers, pid \in 1..MaxPayments, sigOk \in BOOLEAN :
        StartVerify(h, pid, pid, sigOk)
  \/ \E h \in Handlers : VReplay(h)
  \/ \E h \in Handlers : VFail(h)
  \/ \E h \in Handlers : Respond(h)
  \/ \E h \in Handlers : VMarkCompleted(h, FALSE)
  \/ \E h \in Handlers : VContext(h, FALSE)
  \/ \E h \in Handlers : VRenewLoad(h)
  \/ \E h \in Handlers : VRenewCount(h)
  \/ \E h \in Handlers : VRenewSave(h, FALSE)
  \/ \E h \in Handlers : VUpgradeLoad(h)
  \/ \E h \in Handlers : VUpgradeExpire(h, FALSE)
  \/ \E h \in Handlers : VCreate(h, FALSE)
  \/ \E h \in Handlers : VLink(h, FALSE)

SpecConcurrentVerify == Init /\ [][NextConcurrentVerify]_vars

(* ------------------------------------------------ renewal racing the sweep *)
\* One user buys and renews the 30-day plan; the clock advances between
\* requests and the daily sweep runs between any two round trips of a request.
NextRenewSweep ==
  \/ AllIdle /\ Tick
  \/ Sweep
  \/ \E action \in {"purchase", "renew"}, subId \in 0..MaxSubs :
        CreateOrder(1, "u1", "Basic", action, subId, TRUE, MaxPayments)
  \/ \E pid \in 1..MaxPayments : StartVerify(1, pid, pid, TRUE)
  \/ VReplay(1)
  \/ VFail(1)
  \/ Respond(1)
  \/ VMarkCompleted(1, FALSE)
  \/ VContext(1, FALSE)
  \/ VRenewLoad(1)
  \/ VRenewCount(1)
  \/ VRenewSave(1, FALSE)
  \/ VCreate(1, FALSE)
  \/ VLink(1, FALSE)

SpecRenewSweep == Init /\ [][NextRenewSweep]_vars

(* ------------------------------------------ failing steps inside verifyPayment *)
\* Verify calls (verified signature) served one after another, where every
\* database round trip after the lookup may fail: a save or create throws,
\* the plan lookup returns nothing.
NextFaults ==
  \/ \E planId \in {"Basic", "Standard"}, action \in Actions, subId \in 0..MaxSubs :
        CreateOrder(1, "u1", planId, action, subId, TRUE, MaxPayments)
  \/ \E pid \in 1..MaxPayments : StartVerify(1, pid, pid, TRUE)
  \/ VReplay(1)
  \/ VFail(1)
  \/ Respond(1)
  \/ \E f \in BOOLEAN : VMarkCompleted(1, f)
  \/ \E g \in BOOLEAN : VContext(1, g)
  \/ VRenewLoad(1)
  \/ VRenewCount(1)
  \/ \E f \in BOOLEAN : VRenewSave(1, f)
  \/ VUpgradeLoad(1)
  \/ \E f \in BOOLEAN : VUpgradeExpire(1, f)
  \/ \E f \in BOOLEAN : VCreate(1, f)
  \/ \E f \in BOOLEAN : VLink(1, f)

SpecFaults == Init /\ [][NextFaults]_vars

(* -------------------------------------------- failing saves in the webhook *)
\* Webhook events with any signature result, served one after another, where
\* the save of the payment may throw.
NextWebhookFaults ==
  \/ AllIdle /\ Tick
  \/ \E planId \in {"Basic", "Standard"}, gwOk \in BOOLEAN :
        CreateOrder(1, "u1", planId, "purchase", 0, gwOk, MaxPayments)
  \/ \E oid \in 1..MaxPayments, status \in {"captured", "authorized", "failed"},
        sigOk \in BOOLEAN : StartWebhook(1, oid, status, sigOk)
  \/ \E f \in BOOLEAN : WSave(1, f)
  \/ Respond(1)

SpecWebhookFaults == Init /\ [][NextWebhookFaults]_vars

(* ------------------------------------------ activate and verify in sequence *)
\* Purchases of one user, completed by the gateway's webhook or by verify,
\* and then activate calls (by the owner or by another user) and verify calls
\* (any signature result), one request after another, the clock advancing
\* between requests.
NextActivateVerify ==
  \/ AllIdle /\ Tick
  \/ \E planId \in {"Basic", "Standard"} :
        CreateOrder(1, "u1", planId, "purchase", 0, TRUE, MaxPayments)
  \/ \E oid \in 1..MaxPayments : StartWebhook(1, oid, "captured", TRUE)
  \/ \E pid \in 1..MaxPayments, sigOk \in BOOLEAN : StartVerify(1, pid, pid, sigOk)
  \/ \E caller \in Users, pid \in 1..MaxPayments, planId \in {"Basic", "Standard"} :
        StartActivate(1, caller, pid, planId)
  \/ WSave(1, FALSE)
  \/ VReplay(1)
  \/ VFail(1)
  \/ Respond(1)
  \/ VMarkCompleted(1, FALSE)
  \/ VContext(1, FALSE)
  \/ VCreate(1, FALSE)
  \/ VLink(1, FALSE)
  \/ AExisting(1)
  \/ ACreate(1)
  \/ ALink(1)

SpecActivateVerify == Init /\ [][NextActivateVerify]_vars

(* ------------------------------------------ activate after any kind of order *)
\* One user places orders of every kind; the gateway's captured event, the
\* client's verify call (verified signature) and activate (any plan id) are
\* served one after another.
NextActivateAny ==
  \/ \E planId \in {"Basic", "Standard"}, action \in Actions, subId \in 0..MaxSubs :
        CreateOrder(1, "u1", planId, action, subId, TRUE, MaxPayments)
  \/ \E oid \in 1..MaxPayments : StartWebhook(1, oid, "captured", TRUE)
  \/ \E pid \in 1..MaxPayments : StartVerify(1, pid, pid, TRUE)
  \/ \E pid \in 1..MaxPayments, planId \in {"Basic", "Standard"} :
        StartActivate(1, "u1", pid, planId)
  \/ WSave(1, FALSE)
  \/ VReplay(1)
  \/ VFail(1)
  \/ Respond(1)
  \/ VMarkCompleted(1, FALSE)
  \/ VContext(1, FALSE)
  \/ VRenewLoad(1)
  \/ VRenewCount(1)
  \/ VRenewSave(1, FALSE)
  \/ VUpgradeLoad(1)
  \/ VUpgradeExpire(1, FALSE)
  \/ VCreate(1, FALSE)
  \/ VLink(1, FALSE)
  \/ AExisting(1)
  \/ ACreate(1)
  \/ ALink(1)

SpecActivateAny == Init /\ [][NextActivateAny]_vars

(* --------------------------------------------- verify calls of any user *)
\* u1 places purchase orders; any authenticated user posts verify for them,
\* with a signature that verifies or not, one request after another.
NextVerifyByAnyone ==
  \/ AllIdle /\ Tick
  \/ \E planId \in {"Basic", "Standard"} :
        CreateOrder(1, "u1", planId, "purchase", 0, TRUE, MaxPayments)
  \/ \E caller \in Users, pid \in 1..MaxPayments, sigOk \in BOOLEAN :
        StartVerifyBy(1, caller, pid, pid, pid, sigOk)
  \/ VReplay(1)
  \/ VFail(1)
  \/ Respond(1)
  \/ VMarkCompleted(1, FALSE)
  \/ VContext(1, FALSE)
  \/ VCreate(1, FALSE)
  \/ VLink(1, FALSE)

SpecVerifyByAnyone == Init /\ [][NextVerifyByAnyone]_vars

(* ------------------------------------- verify with any paid order's triple *)
\* the order ids the gateway has issued
GatewayOrders == {payments[q].orderId : q \in PayIds} \ {0}

\* u1 places purchase orders, some of which fail at the gateway and so carry
\* no order id.  A verify call names any payment and carries the order id,
\* payment id and signature the gateway gave for one of its orders (so the
\* signature verifies), one request after another.
NextOrderBinding ==
  \/ AllIdle /\ Tick
  \/ \E planId \in {"Basic", "Standard"}, gwOk \in BOOLEAN :
        CreateOrder(1, "u1", planId, "purchase", 0, gwOk, MaxPayments)
  \/ \E pid \in 1..MaxPayments, oid \in GatewayOrders : StartVerify(1, pid, oid, TRUE)
  \/ VReplay(1)
  \/ VFail(1)
  \/ Respond(1)
  \/ VMarkCompleted(1, FALSE)
  \/ VContext(1, FALSE)
  \/ VCreate(1, FALSE)
  \/ VLink(1, FALSE)

SpecOrderBinding == Init /\ [][NextOrderBinding]_vars

(* ------------------------------------------------- orders of two users *)
\* Two users place orders of every kind, naming any subscription as the
\* target, and verify them (verified signature), one request after another.
NextOrders ==
  \/ \E u \in Users, planId \in {"Basic", "Standard"}, action \in Actions,
        subId \in 0..MaxSubs :
        CreateOrder(1, u, planId, action, subId, TRUE, MaxPayments)
  \/ \E pid \in 1..MaxPayments : StartVerify(1, pid, pid, TRUE)
  \/ VReplay(1)
  \/ VFail(1)
  \/ Respond(1)
  \/ VMarkCompleted(1, FALSE)
  \/ VContext(1, FALSE)
  \/ VRenewLoad(1)
  \/ VRenewCount(1)
  \/ VRenewSave(1, FALSE)
  \/ VUpgradeLoad(1)
  \/ VUpgradeExpire(1, FALSE)
  \/ VCreate(1, FALSE)
  \/ VLink(1, FALSE)

SpecOrders == Init /\ [][NextOrders]_vars

(* ---------------------------------------------------- concurrent renewals *)
\* One user buys the 30-day plan with their first order and then pays for
\* renewals of it; two handler slots serve the verify calls (verified
\* signature) at once, and the clock advances between requests.
MaxRenewPayments == 3

NextConcurrentRenew ==
  \/ AllIdle /\ Tick
  \/ payments = <<>> /\ CreateOrder(1, "u1", "Basic", "purchase", 0, TRUE, MaxRenewPayments)
  \/ \E subId \in 0..1 :
        CreateOrder(1, "u1", "Basic", "renew", subId, TRUE, MaxRenewPayments)
  \/ \E h \in Handlers, pid \in 1..MaxRenewPayments : StartVerify(h, pid, pid, TRUE)
  \/ \E h \in Handlers : VReplay(h)
  \/ \E h \in Handlers : VFail(h)
  \/ \E h \in Handlers : Respond(h)
  \/ \E h \in Handlers : VMarkCompleted(h, FALSE)
  \/ \E h \in Handlers : VContext(h, FALSE)
  \/ \E h \in Handlers : VRenewLoad(h)
  \/ \E h \in Handlers : VRenewCount(h)
  \/ \E h \in Handlers : VRenewSave(h, FALSE)
  \/ \E h \in Handlers : VCreate(h, FALSE)
  \/ \E h \in Handlers : VLink(h, FALSE)

SpecConcurrentRenew == Init /\ [][NextConcurrentRenew]_vars

(* ----------------------------------------- purchases on more than one plan *)
\* One user buys subscriptions on two plans, one request after another, with
\* verified signatures; up to MaxPurchasePayments orders are placed.
MaxPurchasePayments == 3

NextPurchases ==
  \/ AllIdle /\ Tick
  \/ \E planId \in {"Basic", "Standard"} :
        CreateOrder(1, "u1", planId, "purchase", 0, TRUE, MaxPurchasePayments)
  \/ \E pid \in 1..MaxPurchasePayments : StartVerify(1, pid, pid, TRUE)
  \/ VReplay(1)
  \/ VFail(1)
  \/ Respond(1)
  \/ VMarkCompleted(1, FALSE)
  \/ VContext(1, FALSE)
  \/ VCreate(1, FALSE)
  \/ VLink(1, FALSE)

SpecPurchases == Init /\ [][NextPurchases]_vars

(* ------------------------------------------------- repeated completions *)
\* Completion events served one after another, where an order may have been
\* paid in more than one attempt: the gateway payment id of a verify call or
\* of a webhook is any of the attempts' ids.
NextRecompletion ==
  \/ AllIdle /\ Tick
  \/ \E planId \in {"Basic", "Standard"}, action \in Actions, subId \in 0..MaxSubs :
        CreateOrder(1, "u1", planId, action, subId, TRUE, MaxPayments)
  \/ \E pid \in 1..MaxPayments, gw \in 1..MaxPayments :
        StartVerifyAs(1, pid, pid, gw, TRUE)
  \/ \E oid \in 1..MaxPayments, gw \in 1..MaxPayments, status \in {"captured", "authorized"} :
        StartWebhookAs(1, oid, gw, status, TRUE)
  \/ VReplay(1)
  \/ VFail(1)
  \/ Respond(1)
  \/ VMarkCompleted(1, FALSE)
  \/ VContext(1, FALSE)
  \/ VRenewLoad(1)
  \/ VRenewCount(1)
  \/ VRenewSave(1, FALSE)
  \/ VUpgradeLoad(1)
  \/ VUpgradeExpire(1, FALSE)
  \/ VCreate(1, FALSE)
  \/ VLink(1, FALSE)
  \/ WSave(1, FALSE)

SpecRecompletion == Init /\ [][NextRecompletion]_vars

(* ===================================================================== *)
(* Claims                                                                *)
(* ===================================================================== *)
\* the subscriptions created from payment p
SubsFrom(p) == {s \in SubIds : subs[s].paymentId = p}

\* the billing-history entries that reference payment p, as (subscription, index)
EntriesFor(p) ==
  {e \in SubIds \X (1..MaxHistory + 1) :
      /\ e[2] <= Len(subs[e[1]].billingHistory)
      /\ subs[e[1]].billingHistory[e[2]].paymentId = p}

\* the subscriptions whose billing history references payment p
AffectedBy(p) == {e[1] : e \in EntriesFor(p)}

Linked(p) == payments[p].status = "completed" /\ payments[p].subscription # 0

(* C1: Idempotent completion.  Under reconciliation events only (verify with *)
(* a verified signature, webhook completions, in any order and number), no   *)
(* payment ever has more than one subscription created from it or more than  *)
(* one billing-history entry, and a payment that is completed and linked has *)
(* exactly one billing-history entry, in the subscription it is linked to.   *)
C1_IdempotentCompletion ==
  \A p \in PayIds :
    /\ Cardinality(SubsFrom(p)) <= 1
    /\ Cardinality(EntriesFor(p)) <= 1
    /\ Linked(p) =>
         /\ Cardinality(EntriesFor(p)) = 1
         /\ AffectedBy(p) = {payments[p].subscription}
         /\ payments[p].action # "renew" => SubsFrom(p) = {payments[p].subscription}

\* a second verify of a payment that is completed and linked is being answered
C1_Witness ==
  \E h \in Handlers :
    /\ hs[h].pc = "v_replay"
    /\ Linked(hs[h].pid)
    /\ Cardinality(EntriesFor(hs[h].pid)) = 1

(* C2: Concurrent verify race.  When verify and a completing webhook run     *)
(* concurrently for the same pending payment, the payment goes from pending  *)
(* to completed exactly once (one completing save, hence one invoice number  *)
(* generated) and exactly one subscription is created from it.              *)
C2_OneTransitionOneSubscription ==
  \A p \in PayIds :
    /\ payments[p].invoices <= 1
    /\ Cardinality(SubsFrom(p)) <= 1

(* C3: Concurrent subscription-applying reconciliations.  When two verify    *)
(* calls, or a verify call and an activate call, run concurrently for the    *)
(* same payment, the lifecycle operation is applied at most once: at most    *)
(* one subscription is created from the payment and at most one billing-     *)
(* history entry (one end-date extension) references it.                     *)
C3_AppliedAtMostOnce ==
  \A p \in PayIds :
    /\ Cardinality(SubsFrom(p)) <= 1
    /\ Cardinality(EntriesFor(p)) <= 1

(* C4: Completion wins.  Once a payment's status is completed it stays       *)
(* completed in every later state, whatever operation follows (verify with a *)
(* valid or invalid signature, any webhook event, activate, a business-rule  *)
(* refusal inside verify): no step takes a completed payment to another      *)
(* status.                                                                   *)
C4_CompletionWins ==
  [][\A p \in PayIds :
        payments[p].status = "completed" => payments'[p].status = "completed"]_vars

\* the completed renew payments against subscription sid created in the month
\* of t, other than payment pid itself
OtherRenews(pid, sid, t) ==
  {p \in PayIds \ {pid} :
      /\ payments[p].action = "renew"
      /\ payments[p].target = sid
      /\ payments[p].status = "completed"
      /\ MonthOf(payments[p].createdAt) = MonthOf(t)}

(* C5: Renewal cap.  A renewal is refused with the renew-limit conflict only *)
(* when the number of previously completed renew payments for that           *)
(* subscription in the month has reached the plan's nonzero cap (so with cap *)
(* 2 the first two renewals of a month are applied and the third refused).   *)
C5_RefusedOnlyAtCap ==
  \A h \in Handlers :
    hs[h].pc = "v_fail" /\ hs[h].arg = "renew_limit" =>
      LET cap == Plan[subs[hs[h].sid].plan].renewLimit
      IN cap > 0 /\ Cardinality(OtherRenews(hs[h].pid, hs[h].sid, hs[h].t)) >= cap

(* C6: In every reachable state, for every user and every plan, at most one  *)
(* subscription of that user on that plan is active with its end date in the *)
(* future.                                                                   *)
C6_OneActivePerUserPlan ==
  \A u \in Users, planId \in PlanIds :
    Cardinality({s \in ActiveSubsOf(u, now) : subs[s].plan = planId}) <= 1

(* C7: Expiry sweep non-interference.  When a renewal and an expiry sweep    *)
(* run concurrently, once the renewal has committed a new end date that lies *)
(* in the future the subscription's persisted status is active.              *)
C7_RenewedIsActive ==
  \A h \in Handlers :
    /\ hs[h].pc = "v_link"
    /\ payments[hs[h].pid].action = "renew"
    /\ subs[hs[h].sid].endDate > now
    => subs[hs[h].sid].status = "active"

(* C8: If a step fails after the payment has been marked completed in a      *)
(* reconciliation but before the subscription is linked to it (the plan      *)
(* lookup, the subscription creation or the link write fails), the payment's *)
(* status is still completed when the request has been answered.             *)
C8_FailureKeepsCompleted ==
  [][\A h \in Handlers :
        /\ hs[h].pc = "v_fail"
        /\ hs[h].arg \in {"plan_not_found", "create_failed", "link_failed"}
        /\ hs'[h].pc = "idle"
        => payments'[hs[h].pid].status = "completed"]_vars

\* the distinct renew payments applied to subscription s (a billing-history
\* entry pushed) in calendar month m
RenewalsApplied(s, m) ==
  {subs[s].billingHistory[i].paymentId : i \in
     {j \in 1..Len(subs[s].billingHistory) :
        /\ payments[subs[s].billingHistory[j].paymentId].action = "renew"
        /\ MonthOf(subs[s].billingHistory[j].date) = m}}

(* C9: Under every interleaving of concurrent renew reconciliations for      *)
(* distinct renew payments against the same subscription, the number of      *)
(* renewals applied to that subscription within one calendar month never     *)
(* exceeds the plan's nonzero renewal cap.                                   *)
C9_CapNeverExceeded ==
  \A s \in SubIds, m \in 0..MonthOf(MaxTicks * TickDays) :
    LET cap == Plan[subs[s].plan].renewLimit
    IN cap > 0 => Cardinality(RenewalsApplied(s, m)) <= cap

\* handler h is reconciling an upgrade payment
Upgrading(h) == hs[h].op = "verify" /\ payments[hs[h].pid].action = "upgrade"

\* the priorities an upgrade payment compares: of its target's plan, of its plan
OldPriority(p) == Plan[subs[payments[p].target].plan].priority
NewPriority(p) == Plan[payments[p].plan].priority

(* C10: Upgrade monotonicity.  No upgrade payment names the plan its target  *)
(* is already on (the order is refused).  Reconciling an upgrade payment     *)
(* goes ahead if and only if the target's plan priority is strictly less     *)
(* than the new plan's, and is refused otherwise; going ahead, it leaves the *)
(* old subscription expired, creates exactly one subscription, active, on    *)
(* the new plan, starting now, from the same payment, and links the payment  *)
(* to it.                                                                    *)
C10_UpgradeMonotonicity ==
  /\ [](\A p \in PayIds : payments[p].action = "upgrade" =>
            subs[payments[p].target].plan # payments[p].plan)
  /\ [][\A h \in Handlers : Upgrading(h) =>
          LET pid == hs[h].pid
              old == payments[pid].target
          IN /\ hs[h].pc = "v_upgrade_load" =>
                  /\ hs'[h].pc = "v_upgrade_expire" <=> OldPriority(pid) < NewPriority(pid)
                  /\ hs'[h].pc = "v_fail" <=> OldPriority(pid) >= NewPriority(pid)
             /\ hs[h].pc = "v_upgrade_expire" =>
                  /\ subs'[old].status = "expired"
                  /\ Len(subs') = Len(subs)
             /\ hs[h].pc = "v_create" =>
                  /\ Len(subs') = Len(subs) + 1
                  /\ subs'[old].status = "expired"
                  /\ subs'[Len(subs')].status = "active"
                  /\ subs'[Len(subs')].plan = payments[pid].plan
                  /\ subs'[Len(subs')].startDate = now
                  /\ subs'[Len(subs')].paymentId = pid
                  /\ subs'[Len(subs')].user = payments[pid].user
                  /\ hs'[h].sid = Len(subs')
             /\ hs[h].pc = "v_link" =>
                  /\ payments'[pid].subscription = hs[h].sid
                  /\ payments'[pid].status = "completed"]_vars

\* an upgrade has expired the old subscription and created the new one
C10_Witness ==
  \E h \in Handlers :
    /\ Upgrading(h)
    /\ hs[h].pc = "v_link"
    /\ OldPriority(hs[h].pid) < NewPriority(hs[h].pid)
    /\ subs[payments[hs[h].pid].target].status = "expired"
    /\ subs[hs[h].sid].status = "active"
    /\ subs[hs[h].sid].plan = payments[hs[h].pid].plan

(* C11: Renewal date arithmetic.  A renewal that is applied sets the         *)
(* subscription's end date to max(current end, now) + the plan's duration in *)
(* days and its status to active, and appends exactly one billing-history    *)
(* entry (for the payment), leaving the earlier entries and every other      *)
(* subscription as they were.                                                *)
C11_RenewalArithmetic ==
  [][\A h \in Handlers :
        hs[h].pc = "v_renew_save" /\ hs'[h].pc = "v_link" =>
          LET sid == hs[h].sid
              pid == hs[h].pid
              cur == subs[sid].endDate
              days == Plan[payments[pid].plan].duration
              hist == subs[sid].billingHistory
          IN /\ subs'[sid].endDate = (IF cur > now THEN cur ELSE now) + days
             /\ subs'[sid].status = "active"
             /\ Len(subs'[sid].billingHistory) = Len(hist) + 1
             /\ SubSeq(subs'[sid].billingHistory, 1, Len(hist)) = hist
             /\ subs'[sid].billingHistory[Len(hist) + 1] = BillingEntry(now, pid)
             /\ \A s \in SubIds \ {sid} : subs'[s] = subs[s]]_vars

\* a lapsed, expired subscription has been renewed: active, ending at now +
\* duration, with the payment's entry last in its billing history
C11_Witness ==
  \E h \in Handlers :
    /\ hs[h].pc = "v_link"
    /\ payments[hs[h].pid].action = "renew"
    /\ hs[h].lend < now
    /\ hs[h].lsst = "expired"
    /\ subs[hs[h].sid].status = "active"
    /\ subs[hs[h].sid].endDate = now + Plan[payments[hs[h].pid].plan].duration

(* C12: Payment status only moves forward out of pending.  A payment whose   *)
(* status is failed never later becomes completed, whatever verify calls or  *)
(* webhook events arrive for it: no step takes a failed payment to           *)
(* completed.                                                                *)
C12_FailedStaysFailed ==
  [][\A p \in PayIds :
        payments[p].status = "failed" => payments'[p].status # "completed"]_vars

(* C13: Completing an already-completed payment leaves the record unchanged. *)
(* No step on a payment whose status is completed (a verify call on a        *)
(* completed but unlinked payment, a webhook) changes its gateway payment id *)
(* (with which its signature and stored gateway response are written) or its *)
(* completion timestamp.                                                     *)
C13_CompletedRecordUnchanged ==
  [][\A p \in PayIds :
        payments[p].status = "completed" =>
          /\ payments'[p].razorpayPaymentId = payments[p].razorpayPaymentId
          /\ payments'[p].completedAt = payments[p].completedAt]_vars

(* C14: A subscription transition is all-or-nothing.  When the reconciliation *)
(* of an upgrade or renew payment ends after it has written part of the       *)
(* transition, either the whole transition is in place (the payment is linked *)
(* to the new or extended subscription) or none of it is (upgrade: the old    *)
(* subscription has the status it was loaded with and no subscription exists  *)
(* from the payment; renewal: the end date is the one loaded and no billing   *)
(* entry references the payment).                                             *)
C14_AllOrNothing ==
  [][\A h \in Handlers :
        /\ hs[h].op = "verify"
        /\ hs[h].pc \in {"v_create", "v_link"}
        /\ hs'[h].pc = "idle"
        => LET pid == hs[h].pid
               p == payments[pid]
               whole == hs[h].pc = "v_link" /\ payments'[pid].subscription = hs[h].sid
           IN /\ p.action = "upgrade" =>
                   \/ whole
                   \/ /\ subs'[p.target].status = hs[h].lsst
                      /\ \A s \in 1..Len(subs') : subs'[s].paymentId # pid
              /\ p.action = "renew" =>
                   \/ whole
                   \/ /\ subs'[hs[h].sid].endDate = hs[h].lend
                      /\ \A i \in 1..Len(subs'[hs[h].sid].billingHistory) :
                           subs'[hs[h].sid].billingHistory[i].paymentId # pid]_vars

(* C15: Retry safety.  When a reconciliation attempt completed the payment   *)
(* but failed before the link was written, later attempts for the same       *)
(* payment apply the lifecycle operation no second time: across the failed   *)
(* attempt and the retries at most one subscription is created from the      *)
(* payment and at most one billing-history entry references it, and once the *)
(* payment is completed and linked there is exactly one entry, in the        *)
(* subscription it is linked to.                                             *)
C15_RetryAppliesOnce ==
  \A p \in PayIds :
    /\ Cardinality(SubsFrom(p)) <= 1
    /\ Cardinality(EntriesFor(p)) <= 1
    /\ Linked(p) => AffectedBy(p) = {payments[p].subscription}

(* C16: Idempotent replay leaves state untouched.  A verify call for a       *)
(* payment that is completed and linked, unless its signature check fails,   *)
(* takes the replay path with the linked subscription, and neither entering  *)
(* nor answering the replay changes any field of any payment or              *)
(* subscription.                                                             *)
C16_ReplayChangesNothing ==
  [][\A h \in Handlers :
        /\ (hs[h].pc = "idle" /\ hs'[h].op = "verify" /\ Linked(hs'[h].pid)) =>
              \/ hs'[h].pc = "v_replay"
              \/ hs'[h].pc = "v_fail" /\ hs'[h].arg = "signature_failed"
        /\ hs'[h].pc = "v_replay" =>
              /\ Linked(hs'[h].pid)
              /\ hs'[h].lsub = payments[hs'[h].pid].subscription
              /\ payments' = payments /\ subs' = subs
        /\ hs[h].pc = "v_replay" =>
              /\ hs'[h].pc = "idle"
              /\ payments' = payments /\ subs' = subs]_vars

\* a replay is being answered for a completed payment linked to a subscription
C16_Witness ==
  \E h \in Handlers :
    /\ hs[h].op = "verify"
    /\ hs[h].pc = "v_replay"
    /\ payments[hs[h].pid].status = "completed"
    /\ hs[h].lsub \in SubIds
    /\ hs[h].lsub = payments[hs[h].pid].subscription

(* C17: No payment becomes completed without a verified signature.  Every    *)
(* step that changes an existing payment is the step of a request in flight  *)
(* for that payment; a step that makes it completed is verify's completion   *)
(* or the webhook's save, by a request whose signature check returned true;  *)
(* and every webhook request in flight has passed its signature check.       *)
C17_CompletedOnlyWithSignature ==
  [][\A p \in PayIds :
        payments'[p] # payments[p] =>
          \E h \in Handlers :
            /\ hs[h].pid = p
            /\ hs[h].op \in {"verify", "webhook", "activate"}
            /\ hs[h].op = "webhook" => hs[h].sig
            /\ (payments[p].status # "completed" /\ payments'[p].status = "completed") =>
                 /\ hs[h].sig
                 /\ \/ hs[h].op = "verify" /\ hs[h].pc = "v_complete"
                    \/ hs[h].op = "webhook" /\ hs[h].pc = "w_save"]_vars

\* a verify call whose signature check failed is in flight for a pending payment
C17_Witness ==
  \E h \in Handlers :
    /\ hs[h].op = "verify"
    /\ ~hs[h].sig
    /\ hs[h].pc = "v_fail"
    /\ payments[hs[h].pid].status = "pending"

(* C18: A verify call whose signature check fails marks the payment failed   *)
(* and creates or modifies no subscription: the step that ends such a call   *)
(* leaves the payment failed and the subscriptions as they were.             *)
C18_BadSignatureMarksFailed ==
  [][\A h \in Handlers :
        (hs[h].op = "verify" /\ ~hs[h].sig /\ hs[h].pc = "v_fail" /\ hs'[h].pc = "idle") =>
          /\ payments'[hs[h].pid].status = "failed"
          /\ subs' = subs]_vars
(* C19: An event for an unknown payment changes nothing.  A request is       *)
(* answered 'not found' exactly for an identifier no payment has, and the    *)
(* step that gives the answer leaves every payment and every subscription    *)
(* as it was; a webhook is processed only for the payment that carries the   *)
(* order id of its event, a verify call only for an existing payment.        *)
C19_UnknownPaymentChangesNothing ==
  /\ [](\A h \in Handlers :
          hs[h].pc # "idle" /\ hs[h].op \in {"verify", "webhook"} =>
            /\ hs[h].pid \in PayIds
            /\ hs[h].op = "webhook" => payments[hs[h].pid].orderId = hs[h].oid)
  /\ [][\A h \in Handlers :
          (hs'[h] # hs[h] /\ hs'[h].arg \in {"payment_not_found", "order_not_found"}) =>
            /\ payments' = payments
            /\ subs' = subs
            /\ hs'[h].arg = "payment_not_found" => hs'[h].pid \notin PayIds
            /\ hs'[h].arg = "order_not_found" =>
                 \A p \in PayIds : payments[p].orderId # hs'[h].oid]_vars

\* a webhook with a verified signature named an order no payment has, while
\* the user has a payment and a subscription
C19_Witness ==
  \E h \in Handlers :
    /\ hs[h].pc = "respond"
    /\ hs[h].arg = "order_not_found"
    /\ \A p \in PayIds : payments[p].orderId # hs[h].oid
    /\ payments # <<>>
    /\ subs # <<>>

\* the subscriptions of user u on plan planId that are active at time t
ActiveOnPlan(u, planId, t) == {s \in ActiveSubsOf(u, t) : subs[s].plan = planId}

(* C20: A purchase is refused whenever the user holds a currently-active     *)
(* subscription on the same plan, whatever else the user holds: no purchase  *)
(* order is created and no verify call goes on to create a subscription for  *)
(* a purchase while such a subscription exists, and a refused purchase       *)
(* leaves the subscriptions as they were.                                    *)
C20_PurchaseRefusedWhenActive ==
  [][/\ Len(payments') > Len(payments) =>
          LET p == payments'[Len(payments')]
          IN p.action = "purchase" => ActiveOnPlan(p.user, p.plan, now) = {}
     /\ \A h \in Handlers :
          (hs[h].pc = "v_context" /\ hs'[h].pc = "v_create"
             /\ payments[hs[h].pid].action = "purchase") =>
            ActiveOnPlan(payments[hs[h].pid].user, payments[hs[h].pid].plan, now) = {}
     /\ \A h \in Handlers :
          (hs[h].arg = "already_active" \/ hs'[h].arg = "already_active") /\ hs'[h] # hs[h] =>
            subs' = subs]_vars

(* C21: The webhook handler answers with a non-success response only for a   *)
(* bad signature or a malformed body: every event that passed the signature  *)
(* check and was parsed is acknowledged with success, so no webhook request  *)
(* that has looked up its payment ends with an error response.               *)
C21_SignedEventAcknowledged ==
  [][\A h \in Handlers :
        (hs[h].op = "webhook" /\ hs[h].sig /\ hs[h].pc = "w_save") =>
          hs'[h].arg # "webhook_error"]_vars

(* C22: The webhook handler never creates, links or modifies a subscription. *)
(* Every step of a webhook request leaves the subscriptions and every        *)
(* payment's subscription link as they were, and a payment's link changes    *)
(* only in a step of a verify or activate call for that payment.             *)
C22_WebhookLeavesSubscriptions ==
  [][/\ \A h \in Handlers :
          (hs'[h] # hs[h] /\ (hs[h].op = "webhook" \/ hs'[h].op = "webhook")) =>
            /\ subs' = subs
            /\ \A p \in PayIds : payments'[p].subscription = payments[p].subscription
     /\ \A p \in PayIds :
          payments'[p].subscription # payments[p].subscription =>
            \E h \in Handlers : /\ hs[h].pid = p
                                /\ hs[h].op \in {"verify", "activate"}
                                /\ hs'[h] # hs[h]]_vars

\* a purchase payment completed by a webhook, no request in flight: it has no
\* subscription, while the user holds one from another payment
C22_Witness ==
  /\ AllIdle
  /\ \E p \in PayIds :
       /\ payments[p].action = "purchase"
       /\ payments[p].status = "completed"
       /\ payments[p].razorpayPaymentId # 0
       /\ payments[p].subscription = 0
       /\ SubsFrom(p) = {}
       /\ subs # <<>>

(* C23: Every payment's amount is the amount of its plan, captured when the  *)
(* payment is created, is a positive integer, and is never changed by any    *)
(* later operation.                                                          *)
C23_AmountFromPlan ==
  /\ [](\A p \in PayIds :
          /\ payments[p].amount = Plan[payments[p].plan].amount
          /\ payments[p].amount \in Nat \ {0})
  /\ [][\A p \in PayIds : payments'[p].amount = payments[p].amount]_vars

\* two payments on different plans have been reconciled: one completed and
\* linked to its subscription, each still carrying its plan's amount
C23_Witness ==
  \E p, q \in PayIds :
    /\ payments[p].plan # payments[q].plan
    /\ payments[p].status = "completed"
    /\ Linked(p)
    /\ payments[q].status # "pending"
    /\ payments[p].amount = Plan[payments[p].plan].amount
    /\ payments[q].amount = Plan[payments[q].plan].amount

(* C24: A payment's gateway order id never changes once it is set, and a     *)
(* verify call that supplies an order id different from the one attached to  *)
(* the payment is rejected: the step that answers the mismatch leaves every  *)
(* payment and subscription as it was, and no verify call is in flight with  *)
(* an order id other than its payment's.                                     *)
C24_OrderIdFixed ==
  /\ [](\A h \in Handlers :
          hs[h].op = "verify" /\ hs[h].pc # "idle" =>
            payments[hs[h].pid].orderId \in {0, hs[h].oid})
  /\ [][/\ \A p \in PayIds :
             payments[p].orderId # 0 => payments'[p].orderId = payments[p].orderId
        /\ \A h \in Handlers :
             (hs'[h] # hs[h] /\ hs'[h].arg = "order_mismatch") =>
               /\ payments' = payments
               /\ subs' = subs
               /\ payments[hs'[h].pid].orderId \notin {0, hs'[h].oid}]_vars

\* a verify call for a pending payment supplied another payment's order id
\* and was rejected
C24_Witness ==
  \E h \in Handlers :
    /\ hs[h].pc = "respond"
    /\ hs[h].arg = "order_mismatch"
    /\ hs[h].pid \in PayIds
    /\ payments[hs[h].pid].status = "pending"
    /\ payments[hs[h].pid].orderId # hs[h].oid
    /\ \E q \in PayIds : payments[q].orderId = hs[h].oid

(* C25: Activate applies only to a completed payment and is idempotent by    *)
(* the already-linked check: an activate call on a linked payment creates    *)
(* and changes nothing, an activate call goes on only for a payment loaded   *)
(* as completed, and any sequence of activate and verify calls for one       *)
(* payment creates at most one subscription.                                 *)
C25_ActivateVerifyOnce ==
  /\ [](\A p \in PayIds : Cardinality(SubsFrom(p)) <= 1)
  /\ [](\A h \in Handlers :
          hs[h].pc = "a_create" =>
            hs[h].lstatus = "completed" /\ hs[h].lsub = 0)
  /\ [][\A h \in Handlers :
          (hs[h].pc = "a_existing" \/ hs'[h].pc = "a_existing") /\ hs'[h] # hs[h] =>
            payments' = payments /\ subs' = subs]_vars

(* C26: Subscription status follows pending -> active -> {expired,           *)
(* cancelled}, with renewal the only way back to active from expired: a      *)
(* cancelled subscription never changes status again, an expired one never   *)
(* becomes cancelled and becomes active only in the save of a renewal, and   *)
(* an active one does not go back to pending.                                *)
C26_StatusStateMachine ==
  [][\A s \in SubIds :
        /\ subs[s].status = "cancelled" => subs'[s].status = "cancelled"
        /\ subs[s].status = "expired" =>
             /\ subs'[s].status \in {"expired", "active"}
             /\ subs'[s].status = "active" =>
                  \E h \in Handlers : /\ hs[h].pc = "v_renew_save"
                                      /\ hs[h].sid = s
                                      /\ payments[hs[h].pid].action = "renew"
        /\ subs[s].status = "active" =>
             subs'[s].status \in {"active", "expired", "cancelled"}]_vars

(* C27: Every subscription created for a purchase, by verify or by activate, *)
(* starts now, ends plan.duration days after its start, is active, and has   *)
(* exactly one billing-history entry, which references the originating       *)
(* payment with its amount.                                                  *)
C27_PurchaseSubscriptionShape ==
  [][Len(subs') = Len(subs) + 1 =>
       LET s == subs'[Len(subs')]
       IN payments[s.paymentId].action = "purchase" =>
            /\ s.startDate = now
            /\ s.endDate = s.startDate + Plan[s.plan].duration
            /\ s.status = "active"
            /\ Len(s.billingHistory) = 1
            /\ s.billingHistory[1].paymentId = s.paymentId
            /\ s.billingHistory[1].amount = payments[s.paymentId].amount]_vars

(* C28: Cancel by the owner or an admin sets the subscription's status to    *)
(* cancelled and records both the cancellation timestamp and the reason,     *)
(* and changes no other subscription and no payment.                         *)
C28_CancelRecords ==
  [][\A h \in Handlers :
        (hs[h].pc = "c_save" /\ hs'[h].pc = "idle") =>
          LET s == hs[h].sid
          IN /\ subs'[s].status = "cancelled"
             /\ subs'[s].hasCancelledAt
             /\ subs'[s].cancellationReason # ""
             /\ \A o \in SubIds \ {s} : subs'[o] = subs[o]
             /\ payments' = payments]_vars

\* the answers of createOrder that refuse a renew or upgrade order
TargetRefusals ==
  {"subscription_required", "target_not_found", "target_not_owned", "same_plan"}

(* C29: A create-order request for renew or upgrade is rejected, and no      *)
(* Payment is created, when the target subscription is not named, does not   *)
(* exist or is not owned by the caller, or when an upgrade targets a         *)
(* subscription already on the requested plan: every renew or upgrade        *)
(* payment that is created names an existing subscription of its user, on    *)
(* another plan if it is an upgrade, and the step that refuses an order      *)
(* changes no payment and no subscription.                                   *)
C29_TargetChecked ==
  [][/\ Len(payments') > Len(payments) =>
          LET p == payments'[Len(payments')]
          IN p.action \in {"renew", "upgrade"} =>
               /\ p.target \in SubIds
               /\ subs[p.target].user = p.user
               /\ p.action = "upgrade" => subs[p.target].plan # p.plan
     /\ \A h \in Handlers :
          (hs'[h] # hs[h] /\ hs'[h].arg \in TargetRefusals) =>
            /\ payments' = payments
            /\ subs' = subs
            /\ hs'[h].arg = "subscription_required" => hs'[h].sid = 0
            /\ hs'[h].arg = "target_not_found" => hs'[h].sid \notin SubIds \cup {0}
            /\ hs'[h].arg \in {"target_not_owned", "same_plan"} => hs'[h].sid \in SubIds]_vars

\* an order naming another user's subscription as its target is being refused
C29_Witness ==
  \E h \in Handlers :
    /\ hs[h].pc = "respond"
    /\ hs[h].arg = "target_not_owned"
    /\ hs[h].sid \in SubIds
    /\ payments # <<>>

C31_EndNotBeforeStart ==
  \A s \in SubIds : subs[s].endDate >= subs[s].startDate

\* a subscription that lapsed and was swept has been renewed at a later time
C31_Witness ==
  \E s \in SubIds :
    /\ Len(subs[s].billingHistory) >= 2
    /\ subs[s].startDate < now
    /\ subs[s].endDate > subs[s].startDate + 2 * Plan[subs[s].plan].duration

RenewRefusedAtCap(h, st) == st[h].pc = "v_fail" /\ st[h].arg = "renew_limit"

(* C33: A renewal that is refused because the monthly renewal cap is reached *)
(* leaves the target subscription's end date, status and billing history     *)
(* unchanged: the refusal and the steps after it write no subscription, and  *)
(* at the refusal the target is as the request loaded it.                    *)
C33_RefusedRenewalLeavesTarget ==
  /\ [](\A h \in Handlers : RenewRefusedAtCap(h, hs) =>
          /\ subs[hs[h].sid].endDate = hs[h].lend
          /\ subs[hs[h].sid].status = hs[h].lsst)
  /\ [][\A h \in Handlers :
          RenewRefusedAtCap(h, hs) \/ RenewRefusedAtCap(h, hs') => subs' = subs]_vars

\* a renew payment on an active target has just been refused at the cap
C33_Witness ==
  \E h \in Handlers :
    /\ RenewRefusedAtCap(h, hs)
    /\ payments[hs[h].pid].action = "renew"
    /\ payments[hs[h].pid].target = hs[h].sid
    /\ subs[hs[h].sid].status = "active"

\* the upgrade of request h has been refused by the priority check
UpgradeRefusedAsDowngrade(h, st) == st[h].pc = "v_fail" /\ st[h].arg = "downgrade_refused"

(* C34: An upgrade that is refused because the new plan's priority is not    *)
(* higher than the old plan's leaves the target subscription unchanged and   *)
(* creates no subscription: the refusal and the steps after it leave the     *)
(* collection of subscriptions exactly as it was.                            *)
C34_RefusedUpgradeLeavesTarget ==
  [][\A h \in Handlers :
       UpgradeRefusedAsDowngrade(h, hs) \/ UpgradeRefusedAsDowngrade(h, hs')
         => subs' = subs]_vars

\* an upgrade payment to a plan of no higher priority has just been refused
\* while its target is still active
C34_Witness ==
  \E h \in Handlers :
    /\ UpgradeRefusedAsDowngrade(h, hs)
    /\ payments[hs[h].pid].action = "upgrade"
    /\ payments[hs[h].pid].target \in SubIds
    /\ subs[payments[hs[h].pid].target].status = "active"
    /\ Plan[subs[payments[hs[h].pid].target].plan].priority
         > Plan[payments[hs[h].pid].plan].priority

(* C35: Every subscription created from a payment is on the plan the payment *)
(* was made for, whether verify or activate created it and whatever plan id  *)
(* the request carried.                                                      *)
C35_CreatedOnPaymentPlan ==
  \A s \in SubIds :
    subs[s].paymentId \in PayIds => subs[s].plan = payments[subs[s].paymentId].plan

\* the subscriptions whose creating payment is p
CreatedBy(p) == {s \in SubIds : subs[s].paymentId = p}

(* C36: The lifecycle operation performed for a payment matches the          *)
(* payment's action.  A renew payment creates no subscription and is linked  *)
(* only to its target; an upgrade payment creates at most one subscription,  *)
(* distinct from its target, whose target was expired for it, and is linked  *)
(* only to that subscription.                                                *)
C36_OperationMatchesAction ==
  \A p \in PayIds :
    /\ payments[p].action = "renew" =>
         /\ CreatedBy(p) = {}
         /\ payments[p].subscription \in {0, payments[p].target}
    /\ payments[p].action = "upgrade" =>
         /\ \A s \in CreatedBy(p) :
              /\ payments[p].target \in SubIds \ {s}
              /\ subs[payments[p].target].startDate <= subs[s].startDate
              /\ Len(subs[s].billingHistory) >= 1
         /\ payments[p].subscription \in {0} \cup CreatedBy(p)

\* request h is a verify call of a user who does not own the payment it names
ForeignVerify(h) ==
  /\ hs[h].op = "verify"
  /\ hs[h].pid \in PayIds
  /\ hs[h].caller # payments[hs[h].pid].user

(* C37: A verify call made by an authenticated user who is not the owner of  *)
(* the named payment changes neither the payment nor any subscription.       *)
C37_ForeignVerifyChangesNothing ==
  [][\A h \in Handlers :
       ForeignVerify(h) => payments' = payments /\ subs' = subs]_vars

\* the payments that have been marked completed at some time
EverCompleted == {p \in PayIds : payments[p].completedAt # NoDate}

(* C38: Verify marks a payment completed only when the order id supplied     *)
(* equals the order id attached to the payment at order creation, so a       *)
(* payment without an order id is never completed, and one (order id,        *)
(* gateway payment id, signature) triple completes at most one payment.      *)
C38_CompletionBoundToOrder ==
  /\ \A p \in EverCompleted :
       /\ payments[p].orderId # 0
       /\ payments[p].razorpayPaymentId = payments[p].orderId
  /\ \A p, q \in EverCompleted :
       p # q => payments[p].razorpayPaymentId # payments[q].razorpayPaymentId

(* C39: For every renewal the plan whose renewal cap is checked and the plan *)
(* whose duration is added are the same plan, the target subscription's:     *)
(* every accepted renew payment is for its target's plan, and a renewal      *)
(* about to be saved extends the target by its own plan's duration.          *)
C39_RenewalOnTargetPlan ==
  /\ \A p \in PayIds :
       payments[p].action = "renew" /\ payments[p].target \in SubIds
         => payments[p].plan = subs[payments[p].target].plan
  /\ \A h \in Handlers :
       hs[h].pc = "v_renew_save"
         => payments[hs[h].pid].plan = subs[hs[h].sid].plan

\* the subscriptions written or created by the step, as ids of the new state
Written == {s \in 1..Len(subs') : s > Len(subs) \/ subs'[s] # subs[s]}

(* C40: Every payment that names a target subscription has a target owned by *)
(* the payment's user, and a verify request writes or creates only           *)
(* subscriptions of the user who owns the payment it names.                  *)
C40_TargetOfSameUser ==
  /\ [](\A p \in PayIds :
          payments[p].target # 0 =>
            /\ payments[p].target \in SubIds
            /\ subs[payments[p].target].user = payments[p].user)
  /\ [][\A h \in Handlers :
          hs[h].op = "verify" =>
            \A s \in Written : subs'[s].user = payments[hs[h].pid].user]_vars

\* u2's renew or upgrade payment on u2's own subscription has been applied
C40_Witness ==
  \E p \in PayIds :
    /\ payments[p].user = "u2"
    /\ payments[p].action \in {"renew", "upgrade"}
    /\ payments[p].status = "completed"
    /\ payments[p].subscription # 0
    /\ subs[payments[p].target].user = "u2"

====
